---- MODULE Spec2Model ----
(***************************************************************************)
(* Model of app.py: the Flask wallet server wrapping a Solana RPC client. *)
(*                                                                         *)
(* State: the environment configuration read at import time, the startup  *)
(* block's position and the ports it tried to bind, and, per request      *)
(* being handled, the handler's position, its locals, the RPC calls it    *)
(* made (in order, with their outcome) and the response it returned.      *)
(* The chain is reduced to the set of associated token accounts that      *)
(* exist.  Every RPC call is one step; the handler's local code between   *)
(* two RPC calls belongs to the step that follows or precedes it.         *)
(*                                                                         *)
(* An RPC call has three outcomes: "ok", "raise" (the client raises) and  *)
(* "noresult" (the client returns a dictionary without "result").  The    *)
(* remote node decides the outcome: every call may end in any of them.    *)
(*                                                                         *)
(* A human amount is a decimal m * 10^-e, kept as the pair (m, e);        *)
(* int(amount * 10 ** decimals) is the decimal shift by decimals - e,     *)
(* truncated toward zero as Python's int() truncates.                     *)
(***************************************************************************)
EXTENDS Integers, Sequences, FiniteSets, TLC

\* ---------------------------------------------------------------- bounds
\* Requests handled concurrently in SpecConc.
NumRequests == 2
\* Mantissas of the amounts a request body may carry: -1 .. MaxMant.
MaxMant == 2
\* Token decimals a request body may carry: -1 .. MaxDecimals.
MaxDecimals == 1

\* ------------------------------------------------------- program constants
\* lamports = int(amount * 1_000_000_000): nine decimals.
SolDecimals == 9
\* int(os.environ.get("PORT", 7860))
DefaultPort == 7860

\* ------------------------------------------------------------ input values
None == "None"
\* Exponents e of the amounts m * 10^-e: tenths, and tenths of a lamport.
AmtExps == {1, 10}
\* The PORT environment variable: unset, or a number.
PortEnvValues == {None, "8000"}
\* PRIVATE_KEY: unset, a JSON array, a base58 string, or a malformed string.
PrivateKeyValues == {None, "[json64]", "base58", "malformed"}
\* Address strings of a body: absent, empty, not a public key, public keys.
AddrValues == {None, "", "bad", "A"}
MintValues == {None, "", "bad", "M"}

Requests == 1 .. NumRequests

Missing == [kind |-> "missing", m |-> 0, e |-> 0]
Text == [kind |-> "text", m |-> 0, e |-> 0]
Num(m, e) == [kind |-> "num", m |-> m, e |-> e]

\* amount / amount_sol of a body: absent, a non-numeric string, or a number.
AmountValues ==
    {Missing, Text} \cup {Num(m, e) : m \in -1 .. MaxMant, e \in AmtExps}
\* decimals of a body: absent, a non-numeric string, or an integer.
DecimalsValues ==
    {Missing, Text} \cup {Num(d, 0) : d \in -1 .. MaxDecimals}

SolBodies ==
    [endpoint : {"send_sol"}, to : AddrValues, mint : {None},
     amount : AmountValues, decimals : {Missing}]
TokenBodies ==
    [endpoint : {"send_token"}, to : AddrValues, mint : MintValues,
     amount : AmountValues, decimals : DecimalsValues]
\* Bodies of the concurrent workload: well-formed token transfers to "A".
ConcBodies ==
    [endpoint : {"send_token"}, to : {"A"}, mint : {"M"},
     amount : {Num(1, 1)}, decimals : {Num(0, 0), Num(1, 0)}]
NoRequest ==
    [endpoint |-> None, to |-> None, mint |-> None,
     amount |-> Missing, decimals |-> Missing]

RpcOutcomes == {"ok", "raise", "noresult"}
NoResponse == [status |-> 0, kind |-> "none", msg |-> ""]

VARIABLES
    PRIVATE_KEY,   \* os.environ.get("PRIVATE_KEY")
    PORT,          \* os.environ.get("PORT")
    mainPc,        \* position of the __main__ block
    binds,         \* ports app.run was called with, in order
    chain,         \* associated token accounts that exist on chain
    pc,            \* per request: position of its handler
    request,       \* per request: the JSON body it carries
    amountUnits,   \* per request: lamports / ui_amount
    ataValue,      \* per request: resp["result"]["value"] of get_account_info
    rpcLog,        \* per request: the RPC calls made, in order
    response       \* per request: the HTTP response

vars ==
    <<PRIVATE_KEY, PORT, mainPc, binds, chain, pc, request, amountUnits,
      ataValue, rpcLog, response>>

\* ---------------------------------------------------------- pure functions
\* load_keypair_from_env: a Keypair, or None when the key is unset or
\* cannot be decoded.
load_keypair_from_env(pk) ==
    IF pk = None THEN None
    ELSE IF pk = "[json64]" THEN "keypair"
    ELSE IF pk = "base58" THEN "keypair"
    ELSE None

SIGNER == load_keypair_from_env(PRIVATE_KEY)

\* `if SIGNER is None` would be skipped.
SignerIsNoneSkipped(signer) == FALSE

\* `if SIGNER is None:` of both handlers.
SignerIsNone(signer) == signer = None

\* Python's truthiness of data.get("to") / data.get("mint").
Falsy(s) == s = None \/ s = ""

\* PublicKey(s) raises ValueError unless s decodes to a public key.
PublicKeyRaises(s) == s \notin {"A", "M"}

\* float(data.get(key, 0)) and int(data.get(key, 0)): the default 0 when
\* the key is absent, ValueError on a non-numeric string.
ParseRaises(raw) == raw.kind = "text"
Parsed(raw) == IF raw.kind = "num" THEN raw ELSE Num(0, 0)

\* a / b truncated toward zero.
TruncDiv(a, b) == IF a >= 0 THEN a \div b ELSE -((-a) \div b)

RECURSIVE Shift10(_, _)
\* m * 10^k truncated toward zero (k may be negative).
Shift10(m, k) ==
    IF k = 0 THEN m
    ELSE IF k > 0 THEN Shift10(m * 10, k - 1)
    ELSE Shift10(TruncDiv(m, 10), k + 1)

\* int(amount * 1_000_000_000) and int(amount * (10 ** decimals)).
ToSmallestUnit(amount, decimals) == Shift10(amount.m, decimals - amount.e)

\* `if not to or amount <= 0` of send_sol.
InvalidSolParams(to, amount) == Falsy(to) \/ amount.m <= 0

\* The check with the amount test dropped.
InvalidTokenParamsNoAmount(to, mint, amount) == Falsy(to) \/ Falsy(mint)

\* `if not to or not mint or amount <= 0` of send_token.
InvalidTokenParams(to, mint, amount) ==
    Falsy(to) \/ Falsy(mint) \/ amount.m <= 0

\* get_associated_token_address(owner, mint): a function of the pair.
get_associated_token_address(owner, mint) == <<owner, mint>>

\* The accounts the chain may hold.
Atas == {get_associated_token_address("A", "M")}

Ok200(txid) == [status |-> 200, kind |-> "txid", msg |-> txid]
Err400 == [status |-> 400, kind |-> "error", msg |-> "invalid params"]
Err500(msg) == [status |-> 500, kind |-> "error", msg |-> msg]
\* An exception raised outside the handler's try block: Flask answers it.
Unhandled == [status |-> 500, kind |-> "unhandled", msg |-> "exception"]

Call(op, account, amount, outcome) ==
    [op |-> op, account |-> account, amount |-> amount, outcome |-> outcome]

\* ------------------------------------------------------------------ Init
Init ==
    /\ PRIVATE_KEY \in PrivateKeyValues
    /\ PORT \in PortEnvValues
    /\ mainPc = "start"
    /\ binds = <<>>
    /\ chain \in SUBSET Atas
    /\ pc = [r \in Requests |-> "idle"]
    /\ request = [r \in Requests |-> NoRequest]
    /\ amountUnits = [r \in Requests |-> 0]
    /\ ataValue = [r \in Requests |-> "unknown"]
    /\ rpcLog = [r \in Requests |-> <<>>]
    /\ response = [r \in Requests |-> NoResponse]

\* --------------------------------------------------------------- startup
\* int(os.environ.get("PORT", 7860))
ParsePort(s) == CASE s = "8000" -> 8000
ConfiguredPort == IF PORT = None THEN DefaultPort ELSE ParsePort(PORT)

\* The fallback port two above the configured one.
FallbackPortPlusTwo(port) == port + 2

\* app.run(host="0.0.0.0", port=port + 1)
FallbackPort(port) == port + 1

reqVars == <<pc, request, amountUnits, ataValue, rpcLog, response>>
envVars == <<PRIVATE_KEY, PORT>>
mainVars == <<mainPc, binds>>

\* try: app.run(port=port): the bind succeeds or raises OSError.
FirstBind ==
    /\ mainPc = "start"
    /\ binds' = <<ConfiguredPort>>
    /\ \E ok \in BOOLEAN : mainPc' = IF ok THEN "serving" ELSE "except"
    /\ UNCHANGED <<envVars, chain, reqVars>>

\* except OSError: app.run(port=port + 1); a failure here is not caught.
SecondBind ==
    /\ mainPc = "except"
    /\ binds' = Append(binds, FallbackPort(ConfiguredPort))
    /\ \E ok \in BOOLEAN : mainPc' = IF ok THEN "serving" ELSE "crashed"
    /\ UNCHANGED <<envVars, chain, reqVars>>

\* -------------------------------------------------------------- send_sol
\* The handler up to its first RPC call: the response it returns at once,
\* or NoResponse when it goes on to send_transaction.
SendSolLocal(signer, data) ==
    IF SignerIsNone(signer) THEN Err500("Server signer not configured")
    ELSE IF ParseRaises(data.amount) THEN Unhandled
    ELSE IF InvalidSolParams(data.to, Parsed(data.amount)) THEN Err400
    ELSE IF PublicKeyRaises(data.to) THEN Err500("exception")
    ELSE NoResponse

Finish(r, resp) ==
    /\ pc' = [pc EXCEPT ![r] = "done"]
    /\ response' = [response EXCEPT ![r] = resp]

SendSol(r, bodies) ==
    /\ mainPc = "serving"
    /\ pc[r] = "idle"
    /\ \E data \in bodies :
        LET resp == SendSolLocal(SIGNER, data) IN
        /\ request' = [request EXCEPT ![r] = data]
        /\ IF resp = NoResponse
           THEN /\ pc' = [pc EXCEPT ![r] = "sol_send"]
                /\ amountUnits' = [amountUnits EXCEPT ![r] =
                       ToSmallestUnit(Parsed(data.amount), SolDecimals)]
                /\ UNCHANGED response
           ELSE /\ Finish(r, resp)
                /\ UNCHANGED amountUnits
    /\ UNCHANGED <<envVars, mainVars, chain, ataValue, rpcLog>>

\* The response to the outcome of the one send_transaction of send_sol.
SolSendResponse(outcome) ==
    IF outcome = "ok" THEN Ok200("txid") ELSE Err500("exception")

\* client.send_transaction(txn, SIGNER, ...); jsonify({"txid": resp["result"]})
SolSend(r) ==
    /\ pc[r] = "sol_send"
    /\ \E outcome \in RpcOutcomes :
        /\ rpcLog' = [rpcLog EXCEPT ![r] =
               Append(@, Call("transfer", request[r].to, amountUnits[r], outcome))]
        /\ Finish(r, SolSendResponse(outcome))
    /\ UNCHANGED <<envVars, mainVars, chain, request, amountUnits, ataValue>>

\* ------------------------------------------------------------ send_token
\* The handler up to its first RPC call: the response it returns at once,
\* or NoResponse when it goes on to get_account_info.
SendTokenLocal(signer, data) ==
    IF SignerIsNone(signer) THEN Err500("Server signer not configured")
    ELSE IF ParseRaises(data.amount) \/ ParseRaises(data.decimals)
         THEN Unhandled
    ELSE IF InvalidTokenParams(data.to, data.mint, Parsed(data.amount))
         THEN Err400
    ELSE IF PublicKeyRaises(data.mint) \/ PublicKeyRaises(data.to)
         THEN Err500("exception")
    ELSE NoResponse

SendToken(r, bodies) ==
    /\ mainPc = "serving"
    /\ pc[r] = "idle"
    /\ \E data \in bodies :
        LET resp == SendTokenLocal(SIGNER, data) IN
        /\ request' = [request EXCEPT ![r] = data]
        /\ IF resp = NoResponse
           THEN /\ pc' = [pc EXCEPT ![r] = "get_account_info"]
                /\ UNCHANGED response
           ELSE Finish(r, resp)
    /\ UNCHANGED <<envVars, mainVars, chain, amountUnits, ataValue, rpcLog>>

\* recipient_ata of the request being handled.
RecipientAta(r) == get_associated_token_address(request[r].to, request[r].mint)

\* The check, held back while another request is between its own check and
\* its last submission.
CanCheckRecipientLocked(r) ==
    /\ pc[r] = "get_account_info"
    /\ \A q \in Requests \ {r} :
        pc[q] \notin {"transfer_ix", "create_ata", "transfer"}

\* The handler reaches get_account_info with nothing to wait for.
CanCheckRecipient(r) == pc[r] = "get_account_info"

\* resp["result"]["value"] read from the chain at the time of the call.
AccountInfoValue(r) ==
    IF RecipientAta(r) \in chain THEN "present" ELSE "none"

\* resp = client.get_account_info(recipient_ata); resp["result"]["value"]
GetAccountInfo(r) ==
    /\ CanCheckRecipient(r)
    /\ \E outcome \in RpcOutcomes :
        /\ rpcLog' = [rpcLog EXCEPT ![r] =
               Append(@, Call("get_account_info", RecipientAta(r), 0, outcome))]
        /\ IF outcome = "ok"
           THEN /\ ataValue' = [ataValue EXCEPT ![r] = AccountInfoValue(r)]
                /\ pc' = [pc EXCEPT ![r] = "transfer_ix"]
                /\ UNCHANGED response
           ELSE /\ Finish(r, Err500("exception"))
                /\ UNCHANGED ataValue
    /\ UNCHANGED <<envVars, mainVars, chain, request, amountUnits>>

\* ui_amount = int(amount * (10 ** decimals));
\* transfer_ix = token_client.transfer(..., opts=...): this call signs and
\* sends the transfer; its return value is not read.
TransferIx(r) ==
    /\ pc[r] = "transfer_ix"
    /\ LET ui_amount == ToSmallestUnit(Parsed(request[r].amount),
                                       Parsed(request[r].decimals).m) IN
       \E outcome \in RpcOutcomes :
        /\ amountUnits' = [amountUnits EXCEPT ![r] = ui_amount]
        /\ rpcLog' = [rpcLog EXCEPT ![r] =
               Append(@, Call("transfer", RecipientAta(r), ui_amount, outcome))]
        /\ IF outcome = "raise"
           THEN Finish(r, Err500("exception"))
           ELSE /\ pc' = [pc EXCEPT ![r] =
                       IF ataValue[r] = "none" THEN "create_ata" ELSE "transfer"]
                /\ UNCHANGED response
    /\ UNCHANGED <<envVars, mainVars, chain, request, ataValue>>

\* if resp["result"]["value"] is None: create_resp = client.send_transaction(
\* txn, SIGNER, ...); create_resp is not read.
CreateAta(r) ==
    /\ pc[r] = "create_ata"
    /\ \E outcome \in RpcOutcomes :
        /\ rpcLog' = [rpcLog EXCEPT ![r] =
               Append(@, Call("create", RecipientAta(r), 0, outcome))]
        /\ chain' = IF outcome = "ok" THEN chain \cup {RecipientAta(r)} ELSE chain
        /\ IF outcome = "raise"
           THEN Finish(r, Err500("exception"))
           ELSE /\ pc' = [pc EXCEPT ![r] = "transfer"]
                /\ UNCHANGED response
    /\ UNCHANGED <<envVars, mainVars, request, amountUnits, ataValue>>

\* The response that takes a transfer returning no result for a success.
TransferResponseLenient(outcome) ==
    IF outcome = "raise" THEN Err500("exception") ELSE Ok200("txid")

\* jsonify({"txid": tx_resp["result"]}), or the except clause's 500.
TransferResponse(outcome) ==
    IF outcome = "ok" THEN Ok200("txid") ELSE Err500("exception")

\* tx_resp = token_client.transfer(...); return jsonify({"txid": ...})
Transfer(r) ==
    /\ pc[r] = "transfer"
    /\ \E outcome \in RpcOutcomes :
        /\ rpcLog' = [rpcLog EXCEPT ![r] =
               Append(@, Call("transfer", RecipientAta(r), amountUnits[r], outcome))]
        /\ Finish(r, TransferResponse(outcome))
    /\ UNCHANGED <<envVars, mainVars, chain, request, amountUnits, ataValue>>

\* ---------------------------------------------------------- specifications
\* One request at a time, with every body of the input sets.
Next ==
    \/ FirstBind
    \/ SecondBind
    \/ SendSol(1, SolBodies)
    \/ SolSend(1)
    \/ SendToken(1, TokenBodies)
    \/ GetAccountInfo(1)
    \/ TransferIx(1)
    \/ CreateAta(1)
    \/ Transfer(1)

Spec == Init /\ [][Next]_vars

\* NumRequests token transfers to the same recipient, handled concurrently.
NextConc ==
    \/ FirstBind
    \/ SecondBind
    \/ \E r \in Requests :
        \/ SendToken(r, ConcBodies)
        \/ GetAccountInfo(r)
        \/ TransferIx(r)
        \/ CreateAta(r)
        \/ Transfer(r)

SpecConc == Init /\ [][NextConc]_vars

\* ------------------------------------------------------------ properties
\* Positions in a request's log of its create-account submissions, of its
\* transfer submissions, and of both.
Creates(r) == {i \in DOMAIN rpcLog[r] : rpcLog[r][i].op = "create"}
Transfers(r) == {i \in DOMAIN rpcLog[r] : rpcLog[r][i].op = "transfer"}
Submissions(r) == Creates(r) \cup Transfers(r)

IsToken(r) == request[r].endpoint = "send_token"
IsSol(r) == request[r].endpoint = "send_sol"
Received(r) == request[r].endpoint # None

\* C1: in a send_token request that passed validation, when
\* get_account_info returned none the handler issues exactly one
\* create-account submission, and issues it before any transfer submission
\* of the request; when it returned a present value the handler issues no
\* create-account submission.
C1_CreateOnceBeforeAnyTransfer ==
    \A r \in Requests :
        IsToken(r) =>
            /\ ataValue[r] = "none" =>
                /\ \A t \in Transfers(r) : \E c \in Creates(r) : c < t
                /\ Cardinality(Creates(r)) <= 1
                /\ pc[r] = "done" => Cardinality(Creates(r)) = 1
            /\ ataValue[r] = "present" => Creates(r) = {}

\* C2: a send_token request never submits the token transfer more than
\* once; a request that ran to its 200 response made two submissions (one
\* create, then one transfer) when the recipient had no account and one
\* submission when it had.
C2_SubmissionCounts ==
    \A r \in Requests :
        IsToken(r) =>
            /\ Cardinality(Transfers(r)) <= 1
            /\ (pc[r] = "done" /\ response[r].status = 200) =>
                Cardinality(Submissions(r)) =
                    IF ataValue[r] = "none" THEN 2 ELSE 1

\* C3: with no signer configured, a send_sol or send_token request, whatever
\* its body, makes no RPC call and is answered with an error response.
C3_NoSignerNoRpc ==
    SIGNER = None =>
        \A r \in Requests :
            /\ rpcLog[r] = <<>>
            /\ pc[r] \in {"idle", "done"}
            /\ pc[r] = "done" =>
                /\ response[r].kind = "error"
                /\ response[r].status = 500
                /\ response[r].msg = "Server signer not configured"

\* A request with a well-formed body of either endpoint was answered while
\* no signer was configured.
C3_Witness ==
    /\ SIGNER = None
    /\ \E r \in Requests :
        /\ pc[r] = "done"
        /\ request[r].to = "A"
        /\ request[r].amount = Num(1, 1)
        /\ IsToken(r) => request[r].mint = "M" /\ request[r].decimals = Num(1, 0)

\* The amount of a body is absent, zero or negative.
AmountNotPositive(r) ==
    \/ request[r].amount.kind = "missing"
    \/ request[r].amount.kind = "num" /\ request[r].amount.m <= 0

\* C4: with a signer configured, a send_sol or send_token request whose
\* amount is zero, negative or missing is answered 400 invalid params and
\* makes no RPC call.
C4_NonPositiveAmountRejected ==
    SIGNER # None =>
        \A r \in Requests :
            (Received(r) /\ AmountNotPositive(r)) =>
                /\ rpcLog[r] = <<>>
                /\ pc[r] = "done"
                /\ response[r] = Err400

\* The recipient or the mint of a body is a string that is no public key,
\* or its decimals is negative.
MalformedTokenBody(r) ==
    \/ request[r].to = "bad"
    \/ request[r].mint = "bad"
    \/ request[r].decimals.kind = "num" /\ request[r].decimals.m < 0

\* C5: with a signer configured, a send_token request whose recipient or
\* mint address is syntactically invalid, or whose decimals is negative, is
\* answered as a validation error (400) and makes no RPC call.
C5_MalformedTokenRejected ==
    SIGNER # None =>
        \A r \in Requests :
            (IsToken(r) /\ MalformedTokenBody(r)) =>
                /\ rpcLog[r] = <<>>
                /\ pc[r] = "done"
                /\ response[r].status = 400
                /\ response[r].kind = "error"

\* C6: every answered send_sol or send_token request got 200 with a txid,
\* 400 with an error or 500 with an error, produced by the handler itself:
\* no exception escaped the handler.
C6_EveryExceptionCaught ==
    \A r \in Requests :
        pc[r] = "done" =>
            \/ response[r].status = 200 /\ response[r].kind = "txid"
            \/ response[r].status = 400 /\ response[r].kind = "error"
            \/ response[r].status = 500 /\ response[r].kind = "error"

\* Position i of r's log is a create-account submission that succeeded and
\* position i + 1 is a transfer submission that failed.
CreatedThenTransferFailed(r, i) ==
    /\ i \in DOMAIN rpcLog[r]
    /\ i + 1 \in DOMAIN rpcLog[r]
    /\ rpcLog[r][i].op = "create"
    /\ rpcLog[r][i].outcome = "ok"
    /\ rpcLog[r][i + 1].op = "transfer"
    /\ rpcLog[r][i + 1].outcome # "ok"

\* C7: in send_token, when the create-account submission succeeded and the
\* transfer submission after it failed (raised or returned no result), the
\* request is answered with an error, the failed transfer is the last RPC
\* call of the request, and the created account still exists.
C7_PartialFailureSurfaced ==
    \A r \in Requests :
        \A i \in DOMAIN rpcLog[r] :
            CreatedThenTransferFailed(r, i) =>
                /\ pc[r] = "done"
                /\ response[r].kind = "error"
                /\ response[r].status = 500
                /\ Len(rpcLog[r]) = i + 1
                /\ RecipientAta(r) \in chain

\* A request whose create succeeded and whose following transfer returned
\* no result.
C7_Witness ==
    \E r \in Requests :
        \E i \in DOMAIN rpcLog[r] :
            /\ CreatedThenTransferFailed(r, i)
            /\ rpcLog[r][i + 1].outcome = "noresult"

\* C8: handlers take no lock and share no record of account existence: a
\* request that has reached get_account_info while the recipient account
\* does not exist can make the call at once and be told none, whatever the
\* other requests have observed or submitted.
C8_NoLockNoSharedRecord ==
    \A r \in Requests :
        (pc[r] = "get_account_info" /\ RecipientAta(r) \notin chain) =>
            ENABLED (GetAccountInfo(r) /\ ataValue'[r] = "none")

\* Two requests to the same recipient and mint both observed none and both
\* issued a create-account submission for the same account.
C8_Witness ==
    \E r, q \in Requests :
        /\ r # q
        /\ RecipientAta(r) = RecipientAta(q)
        /\ ataValue[r] = "none"
        /\ ataValue[q] = "none"
        /\ Creates(r) # {}
        /\ Creates(q) # {}

\* C9: the startup block binds the configured port first; after an OSError
\* it binds port + 1, once; it tries no other port, and when the second
\* bind fails the process has crashed with nothing left to try.
C9_RetryNextPortOnce ==
    /\ Len(binds) <= 2
    /\ Len(binds) >= 1 => binds[1] = ConfiguredPort
    /\ Len(binds) = 2 => binds[2] = ConfiguredPort + 1
    /\ mainPc = "start" <=> binds = <<>>
    /\ mainPc = "except" => Len(binds) = 1
    /\ mainPc = "crashed" =>
        /\ Len(binds) = 2
        /\ ~ENABLED (FirstBind \/ SecondBind)
        /\ \A r \in Requests : pc[r] = "idle"

\* Both binds failed.
C9_Witness == mainPc = "crashed" /\ binds = <<DefaultPort, DefaultPort + 1>>

\* C10 as stated: every transfer a request submits carries a smallest-unit
\* amount of at least 1.
C10_SubmittedAmountAtLeastOne ==
    \A r \in Requests :
        \A i \in Transfers(r) : rpcLog[r][i].amount >= 1

\* C10 as amended: every transfer a request submits comes from a body whose
\* amount is positive and carries a smallest-unit amount that is not
\* negative (it is 0 for a positive amount below one smallest unit).
C10_SubmittedAmountNotNegative ==
    \A r \in Requests :
        \A i \in Transfers(r) :
            /\ rpcLog[r][i].amount >= 0
            /\ Parsed(request[r].amount).m > 0

\* send_sol submitted, and the node accepted, a transfer of 0 lamports for
\* a positive amount_sol.
C10_Witness ==
    \E r \in Requests :
        \E i \in Transfers(r) :
            /\ IsSol(r)
            /\ Parsed(request[r].amount).m > 0
            /\ rpcLog[r][i].amount = 0
            /\ rpcLog[r][i].outcome = "ok"
====
